---- MODULE Spec2Model ----
(***************************************************************************)
(* A model of the casbin pgx adapter: the schema bootstrap run by the      *)
(* constructors, and the filtered policy load with its is-filtered flag.   *)
(*                                                                         *)
(* Specifications:                                                         *)
(*   Spec      one caller on one bootstrapped adapter, every table content *)
(*             and every filter argument of the pools below;               *)
(*   SpecConc  several concurrent callers on one adapter (small pools);    *)
(*   SpecBoot  a sequence of adapter constructions against one database,   *)
(*             with rows inserted in between;                              *)
(*   SpecFresh SpecConc on an adapter just constructed (flag false);       *)
(*   SpecCtx   one caller whose context may be cancelled during its load;  *)
(*   SpecLife  constructions, then calls on the adapter constructed first. *)
(***************************************************************************)
EXTENDS Naturals, Sequences, FiniteSets, TLC

\* ------------------------------------------------------------------ bounds
MaxRows == 2
MaxBatch == 2
NumProcs == 2
MaxCtors == 2
MaxInserts == 2

\* ------------------------------------------------------- program constants
defaultTableName == "casbin_rule"
defaultDatabase == "casbin"

\* ------------------------------------------------------------------- values
\* sql.NullString: a nullable column value as the row scan sees it
NullString(s) == [Valid |-> TRUE, String |-> s]
NULL == [Valid |-> FALSE, String |-> ""]

\* one row of the policy table: id SERIAL, ptype NOT NULL, v0..v5 nullable
Row(id, ptype, v) == [id |-> id, ptype |-> ptype, v |-> v]

Pad(vals) == vals \o [i \in 1..(6 - Len(vals)) |-> NULL]

Min(S) == CHOOSE x \in S : \A y \in S : x <= y

\* ------------------------------------------------------------------ Filter
Filter(ptype, v0, v1, v2, v3, v4, v5) ==
    [Ptype |-> ptype, V0 |-> v0, V1 |-> v1, V2 |-> v2, V3 |-> v3, V4 |-> v4, V5 |-> v5]

\* the zero Filter: every allow-list empty
NoFilter == Filter(<<>>, <<>>, <<>>, <<>>, <<>>, <<>>, <<>>)

selectColumns == <<"ptype", "v0", "v1", "v2", "v3", "v4", "v5">>

\* squirrel: .Where(sq.Eq{col: vals}) appends one predicate "col IN (vals)"
Where(query, col, vals) ==
    [query EXCEPT !.where = @ \o << [col |-> col, vals |-> vals] >>]

\* WhereIfSet without the length guard: an empty list becomes "col IN ()"
WhereAlways(query, col, vals) == Where(query, col, vals)

\* "if len(filterValue.X) > 0 { query = query.Where(sq.Eq{col: filterValue.X}) }"
WhereIfSet(query, col, vals) ==
    IF Len(vals) > 0 THEN Where(query, col, vals) ELSE query

\* the select statement loadFilteredPolicies builds for one Filter
FilterQuery(tableName, filterValue) ==
    LET q0 == [columns |-> selectColumns, from |-> tableName,
               orderBy |-> <<"id">>, where |-> <<>>]
        q1 == WhereIfSet(q0, "ptype", filterValue.Ptype)
        q2 == WhereIfSet(q1, "v0", filterValue.V0)
        q3 == WhereIfSet(q2, "v1", filterValue.V1)
        q4 == WhereIfSet(q3, "v2", filterValue.V2)
        q5 == WhereIfSet(q4, "v3", filterValue.V3)
        q6 == WhereIfSet(q5, "v4", filterValue.V4)
    IN  WhereIfSet(q6, "v5", filterValue.V5)

\* ------------------------------------------------- the database's select
ColIndex(col) == CHOOSE i \in 1..7 : selectColumns[i] = col

ColValue(row, col) ==
    IF col = "id" THEN NullString(row.id)
    ELSE IF col = "ptype" THEN NullString(row.ptype)
    ELSE row.v[ColIndex(col) - 1]

\* SQL "col IN (v1, ..., vn)": NULL IN (...) is not true
EqIn(val, vals) == val.Valid /\ \E i \in 1..Len(vals) : vals[i] = val.String

Satisfies(row, where) ==
    \A i \in 1..Len(where) : EqIn(ColValue(row, where[i].col), where[i].vals)

RECURSIVE SortById(_)
SortById(S) ==
    IF S = {} THEN <<>>
    ELSE LET r == CHOOSE x \in S : x.id = Min({y.id : y \in S})
         IN  <<r>> \o SortById(S \ {r})

RECURSIVE Reverse(_)
Reverse(seq) == IF seq = <<>> THEN <<>> ELSE Append(Reverse(Tail(seq)), Head(seq))

\* Select ordered by id descending
SelectDescending(rows, query) ==
    Reverse(SortById({r \in rows : Satisfies(r, query.where)}))

\* the result set of a select, in the order ORDER BY id gives
Select(rows, query) == SortById({r \in rows : Satisfies(r, query.where)})

\* ------------------------------------------------------- row -> policy line
\* the line the row loop of loadFilteredPolicies builds: ptype, then every
\* column whose NullString is Valid, appended in column order
ScanLine(row) ==
    LET valid == SelectSeq(row.v, LAMBDA x : x.Valid)
    IN  <<row.ptype>> \o [i \in 1..Len(valid) |-> valid[i].String]

\* the last non-NULL column of the row, 0 when v0..v5 are all NULL
LastSet(row) ==
    IF \E i \in 1..6 : row.v[i].Valid
    THEN CHOOSE i \in 1..6 : row.v[i].Valid /\ \A j \in (i + 1)..6 : ~row.v[j].Valid
    ELSE 0

\* LoadPolicyCtx's line: [ptype, v0, ..., vk], cut after the last non-NULL column
LoadAllLine(row) ==
    <<row.ptype>> \o [i \in 1..LastSet(row) |-> row.v[i].String]

\* ---------------------------------------------------------------- database
\* db = [relations, rows]: relations maps each relation name of the schema to
\* what it is (table, index or sequence share one namespace); rows maps each
\* table to its set of rows.
EmptyDB == [relations |-> <<>>, rows |-> <<>>]

TableColumns == {"id", "ptype", "v0", "v1", "v2", "v3", "v4", "v5"}

Tables(db) == {n \in DOMAIN db.relations : db.relations[n].kind = "table"}

Indexes(db) == {n \in DOMAIN db.relations : db.relations[n].kind = "index"}

\* an index key expression: a column, or COALESCE(column, '')
Col(c) == [col |-> c, coalesce |-> FALSE]
Coalesce(c) == [col |-> c, coalesce |-> TRUE]

\* (ptype, COALESCE(v0,''), ..., COALESCE(v5,''))
IdentityKey ==
    <<Col("ptype"), Coalesce("v0"), Coalesce("v1"), Coalesce("v2"),
      Coalesce("v3"), Coalesce("v4"), Coalesce("v5")>>

KeyValue(row, key) ==
    [i \in 1..Len(key) |->
        LET val == ColValue(row, key[i].col)
        IN  IF key[i].coalesce /\ ~val.Valid THEN NullString("") ELSE val]

\* two rows collide under a unique index: equal keys with no NULL in them
Collide(r1, r2, key) ==
    /\ KeyValue(r1, key) = KeyValue(r2, key)
    /\ \A i \in 1..Len(key) : KeyValue(r1, key)[i].Valid

HasDuplicates(rows, key) ==
    \E r1, r2 \in rows : r1.id # r2.id /\ Collide(r1, r2, key)

\* a name the database picks for an implicit relation: the wanted one if free
FreeName(db, wanted) ==
    IF wanted \in DOMAIN db.relations THEN wanted \o "1" ELSE wanted

Result(ok, db) == [ok |-> ok, db |-> db]

Relation(kind, on, key, unique) ==
    [kind |-> kind, on |-> on, key |-> key, unique |-> unique]

\* CREATE TABLE without IF NOT EXISTS: an existing relation of the name is an error
ExecCreateTableNoSkip(db, tableName) ==
    IF tableName = "" \/ tableName \in DOMAIN db.relations THEN Result(FALSE, db)
    ELSE Result(TRUE,
            [relations |-> db.relations @@
                (tableName :> Relation("table", tableName, <<>>, FALSE)) @@
                (FreeName(db, tableName \o "_id_seq") :>
                    Relation("sequence", tableName, <<>>, FALSE)) @@
                (FreeName(db, tableName \o "_pkey") :>
                    Relation("index", tableName, <<Col("id")>>, TRUE)),
             rows |-> db.rows @@ (tableName :> {})])

\* CREATE TABLE IF NOT EXISTS "tableName" (id SERIAL PRIMARY KEY, ptype ..., v0..v5)
ExecCreateTable(db, tableName) ==
    IF tableName = "" THEN Result(FALSE, db)
    ELSE IF tableName \in DOMAIN db.relations THEN Result(TRUE, db)
    ELSE LET seq == FreeName(db, tableName \o "_id_seq")
             pkey == FreeName(db, tableName \o "_pkey")
         IN  Result(TRUE,
                [relations |-> db.relations @@
                    (tableName :> Relation("table", tableName, <<>>, FALSE)) @@
                    (seq :> Relation("sequence", tableName, <<>>, FALSE)) @@
                    (pkey :> Relation("index", tableName, <<Col("id")>>, TRUE)),
                 rows |-> db.rows @@ (tableName :> {})])

\* CREATE [UNIQUE] INDEX IF NOT EXISTS "indexName" ON "tableName" (key)
ExecCreateIndex(db, indexName, tableName, key, unique) ==
    IF \/ indexName = "" \/ tableName = ""
       \/ tableName \notin Tables(db)
       \/ \E i \in 1..Len(key) : key[i].col \notin TableColumns
    THEN Result(FALSE, db)
    ELSE IF indexName \in DOMAIN db.relations THEN Result(TRUE, db)
    ELSE IF unique /\ HasDuplicates(db.rows[tableName], key) THEN Result(FALSE, db)
    ELSE Result(TRUE,
            [db EXCEPT !.relations = @ @@
                (indexName :> Relation("index", tableName, key, unique))])

\* INSERT INTO "tableName" (ptype, v0..v5): id from the serial, every unique
\* index of the table enforced
ExecInsert(db, tableName, ptype, v) ==
    IF tableName \notin Tables(db) THEN Result(FALSE, db)
    ELSE LET rows == db.rows[tableName]
             id == IF rows = {} THEN 1
                   ELSE (CHOOSE m \in {r.id : r \in rows} :
                            \A r \in rows : r.id <= m) + 1
             new == Row(id, ptype, v)
             uniq == {n \in Indexes(db) : /\ db.relations[n].on = tableName
                                          /\ db.relations[n].unique}
         IN  IF \E n \in uniq : \E r \in rows : Collide(r, new, db.relations[n].key)
             THEN Result(FALSE, db)
             ELSE Result(TRUE, [db EXCEPT !.rows[tableName] = @ \cup {new}])

\* ------------------------------------------------------------ construction
RECURSIVE Join(_, _)
\* strings.Join
Join(elems, sep) ==
    IF Len(elems) = 0 THEN ""
    ELSE IF Len(elems) = 1 THEN elems[1]
    ELSE elems[1] \o sep \o Join(Tail(elems), sep)

WithTableName(tableName) == [opt |-> "WithTableName", arg |-> tableName]
WithDatabaseName(database) == [opt |-> "WithDatabaseName", arg |-> database]
WithPool == [opt |-> "WithPool", arg |-> ""]
WithIndexOption(columns) == [opt |-> "WithIndex", arg |-> columns]

\* the Option WithIndex(columns...) returns, applied to a
WithIndex(a, columns) ==
    IF Len(columns) > 0 THEN [a EXCEPT !.indexes = Append(@, columns)] ELSE a

\* options that keep a table or database name set by an earlier option
ApplyOptionKeepsFirst(adapter, o) ==
    CASE o.opt = "WithTableName" ->
            IF adapter.tableName \in {"", defaultTableName}
            THEN [adapter EXCEPT !.tableName = o.arg] ELSE adapter
      [] o.opt = "WithDatabaseName" ->
            IF adapter.database \in {"", defaultDatabase}
            THEN [adapter EXCEPT !.database = o.arg] ELSE adapter
      [] o.opt = "WithPool" -> [adapter EXCEPT !.usePool = TRUE]
      [] o.opt = "WithIndex" -> WithIndex(adapter, o.arg)

ApplyOption(a, o) ==
    CASE o.opt = "WithTableName" -> [a EXCEPT !.tableName = o.arg]
      [] o.opt = "WithDatabaseName" -> [a EXCEPT !.database = o.arg]
      [] o.opt = "WithPool" -> [a EXCEPT !.usePool = TRUE]
      [] o.opt = "WithIndex" -> WithIndex(a, o.arg)

RECURSIVE ApplyOptions(_, _)
\* "for _, opt := range opts { opt(a) }"
ApplyOptions(a, opts) ==
    IF opts = <<>> THEN a ELSE ApplyOptions(ApplyOption(a, Head(opts)), Tail(opts))

Nil == [nil |-> TRUE]

\* var cfg PgxAdapter: the zero adapter NewAdapter applies the options to
ZeroAdapter ==
    [db |-> Nil, conn |-> Nil, pool |-> Nil, tableName |-> "", database |-> "",
     indexes |-> <<>>, usePool |-> FALSE]

\* &PgxAdapter{db: conn, conn: conn, tableName: defaultTableName, ...}
AdapterWithConn(conn) ==
    [ZeroAdapter EXCEPT !.db = conn, !.conn = conn,
                        !.tableName = defaultTableName, !.database = defaultDatabase]

\* AdapterWithPool storing the pool in the conn field as well
AdapterWithPoolKeepsConn(pool) ==
    [ZeroAdapter EXCEPT !.db = pool, !.conn = pool, !.pool = pool,
                        !.tableName = defaultTableName, !.database = defaultDatabase]

\* &PgxAdapter{db: pool, pool: pool, tableName: defaultTableName, ...}
AdapterWithPool(pool) ==
    [ZeroAdapter EXCEPT !.db = pool, !.pool = pool,
                        !.tableName = defaultTableName, !.database = defaultDatabase]

\* the getters
GetConn(adapter) == adapter.conn
GetPool(adapter) == adapter.pool
GetDB(adapter) == adapter.db
GetTableName(adapter) == adapter.tableName
GetDatabase(adapter) == adapter.database

uniqueIndexName(tableName) == "idx_" \o tableName

\* createIndex: indexName := "idx_" + a.tableName + "_" + strings.Join(columns, "_")
indexName(tableName, columns) == "idx_" \o tableName \o "_" \o Join(columns, "_")

ColumnsKey(columns) == [i \in 1..Len(columns) |-> Col(columns[i])]

\* createTable run to its end on db: the table, its unique index, then the
\* custom indexes, stopping at the first statement that fails
RECURSIVE CreateIndexesFrom(_, _, _)
CreateIndexesFrom(db, a, i) ==
    IF i > Len(a.indexes) THEN Result(TRUE, db)
    ELSE LET r == ExecCreateIndex(db, indexName(a.tableName, a.indexes[i]),
                                  a.tableName, ColumnsKey(a.indexes[i]), FALSE)
         IN  IF r.ok THEN CreateIndexesFrom(r.db, a, i + 1) ELSE r

createTable(db, a) ==
    LET t == ExecCreateTable(db, a.tableName)
        u == ExecCreateIndex(t.db, uniqueIndexName(a.tableName), a.tableName,
                             IdentityKey, TRUE)
    IN  IF ~t.ok THEN t ELSE IF ~u.ok THEN u ELSE CreateIndexesFrom(u.db, a, 1)

\* ------------------------------------------------------------------- state
VARIABLES
    db,          \* the database: relations and rows
    a,           \* the adapter the callers share: its fields fixed at construction
    isFiltered,  \* a.isFiltered
    mu,          \* a.mu, the sync.RWMutex
    call,        \* per caller: the call it runs and where it stands in it
    lastWriter,  \* the caller whose write of isFiltered is the latest, 0 if none
    ctor,        \* the constructor call in flight, or the last one returned
    built,       \* configurations of the adapters constructed so far
    nCtors       \* constructor calls started

vars == <<db, a, isFiltered, mu, call, lastWriter, ctor, built, nCtors>>
loadVars == <<a, isFiltered, mu, call, lastWriter>>
bootVars == <<ctor, built, nCtors>>

Procs == DOMAIN call

\* ----------------------------------------------------------------- RWMutex
\* w: the writer that holds rw.w and has announced itself (0: none);
\* active: readers holding the read lock; blocked: readers that called RLock
\* while a writer was announced and wait for its Unlock
FreeMutex == [w |-> 0, active |-> {}, blocked |-> {}]

\* ctx: the state of the call's context; cause: the error the returned error
\* wraps (what errors.Is finds in it); failures: errors the driver or the
\* model's loader handed to the call
IdleCall ==
    [pc |-> "idle", op |-> "none", kind |-> "none", nilptr |-> FALSE,
     section |-> "none",
     filters |-> <<>>, fi |-> 0, rows |-> <<>>, fed |-> <<>>, queries |-> 0,
     result |-> "none", ret |-> FALSE,
     ctx |-> "live", cause |-> "none", failures |-> 0]

\* ------------------------------------------------- LoadFilteredPolicyCtx
SupportedKinds == {"Filter", "*Filter", "BatchFilter", "*BatchFilter", "[]Filter"}

Arg(kind, nilptr, filters) == [kind |-> kind, nilptr |-> nilptr, filters |-> filters]

\* "if filter == nil": true of the untyped nil only; an interface value that
\* holds a typed nil pointer is not nil
IsNilInterface(arg) == arg.kind = "nil"

\* TypeSwitch with a default case that loads with no filters instead of failing
TypeSwitchDefaultLoads(c, arg) ==
    IF arg.kind \in SupportedKinds /\ arg.nilptr
    THEN [c EXCEPT !.pc = "done", !.result = "panic"]
    ELSE [c EXCEPT !.pc = "lock", !.section = "filtered", !.filters = arg.filters]

\* TypeSwitch going straight to the queries, the flag left as it was
TypeSwitchSkipsFlag(c, arg) ==
    IF arg.kind \in SupportedKinds
    THEN IF arg.nilptr
         THEN [c EXCEPT !.pc = "done", !.result = "panic"]
         ELSE [c EXCEPT !.pc = "loop", !.fi = 1, !.section = "filtered",
                        !.filters = arg.filters]
    ELSE [c EXCEPT !.pc = "done", !.result = "invalid filter type"]

\* the type switch: filters from the five supported types, a nil pointer
\* dereferenced by "*f" / "f.Filters" panics, any other type is an error
TypeSwitch(c, arg) ==
    IF arg.kind \in SupportedKinds
    THEN IF arg.nilptr
         THEN [c EXCEPT !.pc = "done", !.result = "panic"]
         ELSE [c EXCEPT !.pc = "lock", !.section = "filtered", !.filters = arg.filters]
    ELSE [c EXCEPT !.pc = "done", !.result = "invalid filter type"]

LoadFilteredPolicyCtx(p, arg) ==
    /\ call[p].pc = "idle"
    /\ LET c == [call[p] EXCEPT !.op = "LoadFilteredPolicyCtx", !.kind = arg.kind,
                                !.nilptr = arg.nilptr]
       IN  call' = [call EXCEPT ![p] =
                IF IsNilInterface(arg)
                THEN [c EXCEPT !.pc = "lock", !.section = "nil"]
                ELSE TypeSwitch(c, arg)]
    /\ UNCHANGED <<db, a, isFiltered, mu, lastWriter, bootVars>>

\* a.mu.Lock(), first half: take rw.w and announce the writer to the readers
Lock(p) ==
    /\ call[p].pc = "lock"
    /\ mu.w = 0
    /\ mu' = [mu EXCEPT !.w = p]
    /\ call' = [call EXCEPT ![p].pc = "wait"]
    /\ UNCHANGED <<db, a, isFiltered, lastWriter, bootVars>>

\* Lock() returning without waiting for the readers that hold the read lock
LockAcquiredAtOnce(p) ==
    /\ call[p].pc = "wait"
    /\ call' = [call EXCEPT ![p].pc = "write"]
    /\ UNCHANGED <<db, a, isFiltered, mu, lastWriter, bootVars>>

\* a.mu.Lock(), second half: wait until the active readers have left
LockAcquired(p) ==
    /\ call[p].pc = "wait"
    /\ mu.active = {}
    /\ call' = [call EXCEPT ![p].pc = "write"]
    /\ UNCHANGED <<db, a, isFiltered, mu, lastWriter, bootVars>>

\* the value each locked section stores: true for a filter, false otherwise
FlagValue(section) == section = "filtered"

\* a.isFiltered = ...
WriteFlag(p) ==
    /\ call[p].pc = "write"
    /\ isFiltered' = FlagValue(call[p].section)
    /\ lastWriter' = p
    /\ call' = [call EXCEPT ![p].pc = "unlock"]
    /\ UNCHANGED <<db, a, mu, bootVars>>

\* LoadPolicyCtx: the full load clears the flag under the lock ...
LoadPolicyCtx(c) == [c EXCEPT !.pc = "lock", !.section = "all"]

\* ... and selects every row of the table, ordered by id
LoadPolicyCtxSelect(c) == [c EXCEPT !.pc = "loop", !.fi = 1, !.filters = <<NoFilter>>]

\* where a call goes on after its locked section: the nil branch returns
\* a.LoadPolicyCtx(ctx, model), a filter starts the range loop
AfterUnlock(c) ==
    CASE c.section = "nil" -> LoadPolicyCtx(c)
      [] c.section = "all" -> LoadPolicyCtxSelect(c)
      [] c.section = "filtered" -> [c EXCEPT !.pc = "loop", !.fi = 1]

\* Unlock deferred to the end of the call: the load goes on holding the lock
UnlockKeepsLock(p) ==
    /\ call[p].pc = "unlock"
    /\ call' = [call EXCEPT ![p] = AfterUnlock(call[p])]
    /\ UNCHANGED <<db, a, isFiltered, mu, lastWriter, bootVars>>

\* a.mu.Unlock(): the readers blocked behind the writer get the read lock
Unlock(p) ==
    /\ call[p].pc = "unlock"
    /\ mu' = [w |-> 0, active |-> mu.blocked, blocked |-> {}]
    /\ call' = [call EXCEPT ![p] = AfterUnlock(call[p])]
    /\ UNCHANGED <<db, a, isFiltered, lastWriter, bootVars>>

\* the line a load feeds for a row: the filtered load's scan loop, or
\* LoadPolicyCtx's
LineOf(c, row) == IF c.section = "all" THEN LoadAllLine(row) ELSE ScanLine(row)

\* "for _, filterValue := range filters": past the last filter, return nil
LoopDone(p) ==
    /\ call[p].pc = "loop"
    /\ call[p].fi > Len(call[p].filters)
    /\ call' = [call EXCEPT ![p].pc = "done", ![p].result = "ok"]
    /\ UNCHANGED <<db, a, isFiltered, mu, lastWriter, bootVars>>

\* a "return nil" inside the range loop: the first filter ends the call
NextFilterReturns(c) == [c EXCEPT !.pc = "done", !.result = "ok"]

\* the range loop moves on to the next filter
NextFilter(c) == [c EXCEPT !.pc = "loop", !.fi = @ + 1]

QueryOutcomes == {"rows", "error"}

\* ctx.Err() of a context that is done
CtxErrors == {"context canceled", "context deadline exceeded"}

\* the driver or the loader hands the call an error
Failed(c) == [c EXCEPT !.failures = @ + 1]

\* an error that is dropped: the call goes on where it stands
ReturnErrIgnored(c, msg, err) == c

\* "return fmt.Errorf("msg: %w", err)" (and "return err"): the call ends
\* with an error that wraps err
ReturnErr(c, msg, err) == [c EXCEPT !.pc = "done", !.result = msg, !.cause = err]

\* the error a driver call fails with: the context's when the context is
\* done, else the database's
DriverErr(c) == IF c.ctx # "live" THEN c.ctx ELSE "database"

\* a.db.Query for the current filter; it fails when the database says so,
\* when the table is not there, and at once when the context is done
Query(p, outcome) ==
    /\ call[p].pc = "loop"
    /\ call[p].fi <= Len(call[p].filters)
    /\ LET c == [call[p] EXCEPT !.queries = @ + 1]
           q == FilterQuery(a.tableName, c.filters[c.fi])
       IN  call' = [call EXCEPT ![p] =
                IF c.ctx # "live" \/ outcome = "error" \/ q.from \notin Tables(db)
                THEN ReturnErr(Failed(c), "failed to query policies", DriverErr(c))
                ELSE [c EXCEPT !.pc = "rows", !.rows = Select(db.rows[q.from], q)]]
    /\ UNCHANGED <<db, a, isFiltered, mu, lastWriter, bootVars>>

RowOutcomes == {"row", "scan error", "loader error", "rows error"}

\* one turn of "for rows.Next()": scan, build the line, hand it to the model;
\* after the last row, rows.Err() and on to the next filter. The loop never
\* looks at ctx: rows.Next() ends the iteration with the context's error
\* when the driver has to wait for the server after the context is done, and
\* hands out what the driver has received already as before
NextRow(p, outcome) ==
    /\ call[p].pc = "rows"
    /\ LET c == call[p]
       IN  call' = [call EXCEPT ![p] =
                CASE outcome = "rows error" ->
                        ReturnErr(Failed(c), "error iterating rows", DriverErr(c))
                  [] outcome # "rows error" /\ c.rows = <<>> ->
                        NextFilter(c)
                  [] outcome = "scan error" /\ c.rows # <<>> ->
                        ReturnErr(Failed(c), "failed to scan row", "scan")
                  [] outcome = "loader error" /\ c.rows # <<>> ->
                        ReturnErr(Failed(c), "loader error", "model")
                  [] outcome = "row" /\ c.rows # <<>> ->
                        [c EXCEPT !.rows = Tail(@),
                                  !.fed = Append(@, [id |-> Head(c.rows).id,
                                                     filter |-> c.fi,
                                                     line |-> LineOf(c, Head(c.rows))])]]
    /\ UNCHANGED <<db, a, isFiltered, mu, lastWriter, bootVars>>

\* a query of the call is still to come or in flight
QueryAhead(c) ==
    \/ c.pc \in {"lock", "wait", "write", "unlock"} /\
           (c.section = "filtered" => c.filters # <<>>)
    \/ c.pc = "loop" /\ c.fi <= Len(c.filters)
    \/ c.pc = "rows"

\* the context of a load is cancelled, or its deadline passes, before or
\* during a query of the call
Cancel(p, why) ==
    /\ call[p].op = "LoadFilteredPolicyCtx"
    /\ call[p].ctx = "live"
    /\ QueryAhead(call[p])
    /\ call' = [call EXCEPT ![p].ctx = why]
    /\ UNCHANGED <<db, a, isFiltered, mu, lastWriter, bootVars>>

\* ------------------------------------------------------------ IsFilteredCtx
IsFilteredCtx(p) ==
    /\ call[p].pc = "idle"
    /\ call' = [call EXCEPT ![p].op = "IsFilteredCtx", ![p].pc = "rlock"]
    /\ UNCHANGED <<db, a, isFiltered, mu, lastWriter, bootVars>>

\* a.mu.RLock(): granted at once unless a writer is announced
RLock(p) ==
    /\ call[p].pc = "rlock"
    /\ mu' = IF mu.w = 0 THEN [mu EXCEPT !.active = @ \cup {p}]
                         ELSE [mu EXCEPT !.blocked = @ \cup {p}]
    /\ call' = [call EXCEPT ![p].pc = "read"]
    /\ UNCHANGED <<db, a, isFiltered, lastWriter, bootVars>>

\* "return a.isFiltered": the value is read with the read lock held
ReadFlag(p) ==
    /\ call[p].pc = "read"
    /\ p \in mu.active
    /\ call' = [call EXCEPT ![p].pc = "runlock", ![p].ret = isFiltered]
    /\ UNCHANGED <<db, a, isFiltered, mu, lastWriter, bootVars>>

\* the deferred a.mu.RUnlock()
RUnlock(p) ==
    /\ call[p].pc = "runlock"
    /\ mu' = [mu EXCEPT !.active = @ \ {p}]
    /\ call' = [call EXCEPT ![p].pc = "done", ![p].result = "ok"]
    /\ UNCHANGED <<db, a, isFiltered, lastWriter, bootVars>>

\* the steps of the calls after their entry
CallStep ==
    \/ \E p \in Procs : Lock(p)
    \/ \E p \in Procs : LockAcquired(p)
    \/ \E p \in Procs : WriteFlag(p)
    \/ \E p \in Procs : Unlock(p)
    \/ \E p \in Procs : LoopDone(p)
    \/ \E p \in Procs, o \in QueryOutcomes : Query(p, o)
    \/ \E p \in Procs, o \in RowOutcomes : NextRow(p, o)
    \/ \E p \in Procs : IsFilteredCtx(p)
    \/ \E p \in Procs : RLock(p)
    \/ \E p \in Procs : ReadFlag(p)
    \/ \E p \in Procs : RUnlock(p)

\* -------------------------------------------------------- the constructors
Handle(kind, id) == [kind |-> kind, id |-> id]

\* entry: the constructor called; handle: the connection or pool it works on;
\* opened: this call opened the handle and has not closed it; a: the adapter
\* under construction; i: the custom index createTable is at; executed: DDL
\* statements sent so far; rejected: those the database answered with an
\* error; err, ret: what the call returned
IdleCtor ==
    [pc |-> "idle", entry |-> "none", connStr |-> "", opts |-> <<>>, a |-> Nil,
     handle |-> Nil, opened |-> FALSE, i |-> 0, executed |-> 0, rejected |-> 0,
     err |-> "", ret |-> Nil]

Config(adapter) == [tableName |-> adapter.tableName, indexes |-> adapter.indexes]

CtorFree == ctor.pc \in {"idle", "done"} /\ nCtors < MaxCtors

\* "return nil, err"
Fail(c, msg) == [c EXCEPT !.pc = "done", !.err = msg, !.ret = Nil]

\* the body of NewAdapterWithConn / NewAdapterWithPool up to createTable
Build(c, adapter) ==
    [c EXCEPT !.a = ApplyOptions(adapter, c.opts), !.pc = "createTable"]

\* NewAdapter: the options decide pool or connection, then connect
NewAdapter(connStr, opts) ==
    /\ CtorFree
    /\ LET cfg == ApplyOptions(ZeroAdapter, opts)
           c == [IdleCtor EXCEPT !.entry = "NewAdapter", !.connStr = connStr,
                                 !.opts = opts]
           h == Handle(IF cfg.usePool THEN "pool" ELSE "conn", nCtors + 1)
       IN  ctor' = IF connStr = "invalid"
                   THEN Fail(c, "failed to create connection")
                   ELSE [c EXCEPT !.pc = "ping", !.handle = h, !.opened = TRUE]
    /\ nCtors' = nCtors + 1
    /\ UNCHANGED <<db, built, loadVars>>

\* NewAdapter: Ping; on failure close the handle, else hand it to
\* NewAdapterWithPool / NewAdapterWithConn
Ping ==
    /\ ctor.pc = "ping"
    /\ ctor' = IF ctor.connStr = "unreachable"
               THEN [Fail(ctor, "failed to ping database") EXCEPT !.opened = FALSE]
               ELSE IF ctor.handle.kind = "pool"
                    THEN Build(ctor, AdapterWithPool(ctor.handle))
                    ELSE Build(ctor, AdapterWithConn(ctor.handle))
    /\ UNCHANGED <<db, built, nCtors, loadVars>>

NewAdapterWithConn(conn, opts) ==
    /\ CtorFree
    /\ ctor' = Build([IdleCtor EXCEPT !.entry = "NewAdapterWithConn",
                                      !.opts = opts, !.handle = conn],
                     AdapterWithConn(conn))
    /\ nCtors' = nCtors + 1
    /\ UNCHANGED <<db, built, loadVars>>

NewAdapterWithPool(pool, opts) ==
    /\ CtorFree
    /\ ctor' = Build([IdleCtor EXCEPT !.entry = "NewAdapterWithPool",
                                      !.opts = opts, !.handle = pool],
                     AdapterWithPool(pool))
    /\ nCtors' = nCtors + 1
    /\ UNCHANGED <<db, built, loadVars>>

\* the statement has gone to the database, which answered ok or an error
Sent(c, ok) ==
    [c EXCEPT !.executed = @ + 1, !.rejected = @ + (IF ok THEN 0 ELSE 1)]

\* an Exec whose error is dropped: the next statement runs regardless
OnExecIgnoresError(c, ok, next, msg) == [c EXCEPT !.pc = next]

\* "if _, err := a.db.Exec(...); err != nil { return fmt.Errorf(...) }"
OnExec(c, ok, next, msg) == IF ok THEN [c EXCEPT !.pc = next] ELSE Fail(c, msg)

\* createTable: a.db.Exec(ctx, createTableSQL); the first use of the handle,
\* a nil connection or pool is dereferenced here
CreateTable ==
    /\ ctor.pc = "createTable"
    /\ IF GetDB(ctor.a) = Nil
       THEN db' = db /\ ctor' = Fail(ctor, "panic")
       ELSE LET r == ExecCreateTable(db, ctor.a.tableName)
            IN  /\ db' = r.db
                /\ ctor' = OnExec(Sent(ctor, r.ok), r.ok, "createUniqueIndex",
                               "failed to create table")
    /\ UNCHANGED <<built, nCtors, loadVars>>

\* createTable: a.db.Exec(ctx, createIndexSQL), the unique identity index
CreateUniqueIndex ==
    /\ ctor.pc = "createUniqueIndex"
    /\ LET r == ExecCreateIndex(db, uniqueIndexName(ctor.a.tableName),
                                ctor.a.tableName, IdentityKey, TRUE)
       IN  /\ db' = r.db
           /\ ctor' = [OnExec(Sent(ctor, r.ok), r.ok, "createIndex",
                               "failed to create index") EXCEPT !.i = 1]
    /\ UNCHANGED <<built, nCtors, loadVars>>

\* createTable: one turn of "for _, columns := range a.indexes"
CreateIndex ==
    /\ ctor.pc = "createIndex"
    /\ ctor.i <= Len(ctor.a.indexes)
    /\ LET columns == ctor.a.indexes[ctor.i]
           r == ExecCreateIndex(db, indexName(ctor.a.tableName, columns),
                                ctor.a.tableName, ColumnsKey(columns), FALSE)
       IN  /\ db' = r.db
           /\ ctor' = [OnExec(Sent(ctor, r.ok), r.ok, "createIndex",
                               "failed to create index") EXCEPT !.i = @ + 1]
    /\ UNCHANGED <<built, nCtors, loadVars>>

\* createTable returns nil and the constructor returns the adapter
ReturnAdapter ==
    /\ ctor.pc = "createIndex"
    /\ ctor.i > Len(ctor.a.indexes)
    /\ ctor' = [ctor EXCEPT !.pc = "done", !.ret = ctor.a]
    /\ built' = built \cup {Config(ctor.a)}
    /\ UNCHANGED <<db, nCtors, loadVars>>

RowCount == Cardinality(UNION {{<<t, r>> : r \in db.rows[t]} : t \in Tables(db)})

\* another client of the database inserts a policy row
InsertRow(tableName, policy) ==
    /\ RowCount < MaxInserts
    /\ LET r == ExecInsert(db, tableName, policy.ptype, policy.v)
       IN  r.ok /\ db' = r.db
    /\ UNCHANGED <<bootVars, loadVars>>

\* the application takes the adapter a constructor returned into use: from
\* here on its callers run on it
UseAdapter ==
    /\ a = Nil
    /\ ctor.pc = "done" /\ ctor.ret # Nil
    /\ a' = ctor.ret
    /\ call' = [p \in {1} |-> IdleCall]
    /\ UNCHANGED <<db, isFiltered, mu, lastWriter, bootVars>>

\* ------------------------------------------------------------------- pools
Policy(ptype, vals) == [ptype |-> ptype, v |-> Pad(vals)]

S(x) == NullString(x)

RowAlice == Policy("p", <<S("alice"), S("data1"), S("read")>>)
RowBob == Policy("p", <<S("bob"), S("data2"), S("write"), S("allow"), S("x4"), S("x5")>>)
RowRole == Policy("g", <<S("alice"), S("admin")>>)
RowGap == Policy("p", <<NULL, S("data1"), S("read")>>)

RowPool == {RowAlice, RowBob, RowRole, RowGap}

FilterP == Filter(<<"p">>, <<>>, <<>>, <<>>, <<>>, <<>>, <<>>)
FilterSubObj == Filter(<<>>, <<"alice", "bob">>, <<"data1">>, <<>>, <<>>, <<>>, <<>>)
FilterTail == Filter(<<>>, <<>>, <<>>, <<"write">>, <<"allow">>, <<"x4">>, <<"x5">>)

FilterPool == {NoFilter, FilterP, FilterSubObj, FilterTail}

SeqsUpTo(X, n) == UNION {[1..k -> X] : k \in 0..n}

\* the table contents: up to MaxRows distinct rows, ids in insertion order
TableOf(s) == {Row(i, s[i].ptype, s[i].v) : i \in 1..Len(s)}

TablePool ==
    {TableOf(s) : s \in {t \in SeqsUpTo(RowPool, MaxRows) :
                            \A i, j \in 1..Len(t) : i # j => t[i] # t[j]}}

Batches == SeqsUpTo(FilterPool, MaxBatch)

\* the values a caller may pass as "filter any"
Args ==
    {Arg("nil", FALSE, <<>>), Arg("other", FALSE, <<>>),
     Arg("*Filter", TRUE, <<>>), Arg("*BatchFilter", TRUE, <<>>)}
    \cup {Arg(k, FALSE, <<f>>) : k \in {"Filter", "*Filter"}, f \in FilterPool}
    \cup {Arg(k, FALSE, b) : k \in {"BatchFilter", "*BatchFilter", "[]Filter"},
                             b \in Batches}

ConcArgs ==
    {Arg("nil", FALSE, <<>>), Arg("Filter", FALSE, <<FilterP>>),
     Arg("[]Filter", FALSE, <<>>)}

\* --------------------------------------------------------- specifications
\* the adapter NewAdapterWithConn(conn) returns, and the database it leaves
DefaultAdapter == AdapterWithConn(Handle("conn", 1))

InitLoad(procs, tables) ==
    /\ a = DefaultAdapter
    /\ \E t \in tables :
          db = [createTable(EmptyDB, a).db EXCEPT !.rows[a.tableName] = t]
    /\ isFiltered \in BOOLEAN
    /\ mu = FreeMutex
    /\ call = [p \in procs |-> IdleCall]
    /\ lastWriter = 0
    /\ ctor = IdleCtor
    /\ built = {Config(a)}
    /\ nCtors = 1

Init == InitLoad({1}, TablePool)

Next ==
    \/ \E p \in Procs, arg \in Args : LoadFilteredPolicyCtx(p, arg)
    \/ CallStep

Spec == Init /\ [][Next]_vars

InitConc == InitLoad(1..NumProcs, {TableOf(<<RowAlice>>)})

NextConc ==
    \/ \E p \in Procs, arg \in ConcArgs : LoadFilteredPolicyCtx(p, arg)
    \/ CallStep

SpecConc == InitConc /\ [][NextConc]_vars

\* concurrent callers on an adapter just constructed: the flag is the zero
\* value the constructors leave
InitFresh == InitConc /\ isFiltered = FALSE

SpecFresh == InitFresh /\ [][NextConc]_vars

\* one caller whose context may be cancelled or time out during its load
CtxArgs ==
    {Arg("nil", FALSE, <<>>), Arg("Filter", FALSE, <<FilterP>>),
     Arg("[]Filter", FALSE, <<FilterP, NoFilter>>), Arg("[]Filter", FALSE, <<>>)}

InitCtx == InitLoad({1}, TablePool)

NextCtx ==
    \/ \E p \in Procs, arg \in CtxArgs : LoadFilteredPolicyCtx(p, arg)
    \/ CallStep
    \/ \E p \in Procs, why \in CtxErrors : Cancel(p, why)

SpecCtx == InitCtx /\ [][NextCtx]_vars

\* the constructions of SpecBoot: table names, one of them a prefix of the
\* other and one empty, and WithIndex lists over valid and invalid columns
TableNames == {"a", "a_v0", ""}

IndexLists ==
    {<<>>, << <<"v0">> >>, << <<"v1">> >>, << <<"v0", "v1">> >>, << <<"nope">> >>,
     << <<"v1">>, <<"v0">> >>, << <<>>, <<"v1">> >>}

Opts(tableName, indexes) ==
    <<WithTableName(tableName)>> \o
        [i \in 1..Len(indexes) |-> WithIndexOption(indexes[i])]

ConnOpts ==
    {Opts(t, x) : t \in TableNames, x \in IndexLists}
    \cup {Opts("a", <<>>) \o <<WithPool>>}

PoolOpts == {Opts("a", <<>>), Opts("", <<>>)}

ConnStrs == {"ok", "invalid", "unreachable"}

NewAdapterOpts ==
    {Opts("a", <<>>), Opts("a", <<>>) \o <<WithPool>>,
     Opts("a", << <<"nope">> >>) \o <<WithPool>>, Opts("", <<>>)}

InsertPool == {Policy("p", <<S("alice")>>), Policy("p", <<S("alice"), S("")>>)}

InitBoot ==
    /\ db = EmptyDB
    /\ a = Nil
    /\ isFiltered = FALSE
    /\ mu = FreeMutex
    /\ call = <<>>
    /\ lastWriter = 0
    /\ ctor = IdleCtor
    /\ built = {}
    /\ nCtors = 0

NextBoot ==
    \/ \E s \in ConnStrs, o \in NewAdapterOpts : NewAdapter(s, o)
    \/ Ping
    \/ \E o \in ConnOpts : NewAdapterWithConn(Handle("conn", 0), o)
    \/ \E o \in PoolOpts : NewAdapterWithConn(Nil, o)
    \/ \E h \in {Handle("pool", 0), Nil}, o \in PoolOpts : NewAdapterWithPool(h, o)
    \/ CreateTable
    \/ CreateUniqueIndex
    \/ CreateIndex
    \/ ReturnAdapter
    \/ \E t \in Tables(db), r \in InsertPool : InsertRow(t, r)

SpecBoot == InitBoot /\ [][NextBoot]_vars

\* the life of one adapter: constructions with table and database names set
\* once, twice or not at all, then loads and IsFiltered calls on the adapter
LifeOpts ==
    {<<>>,
     <<WithDatabaseName("x"), WithDatabaseName("y")>>,
     <<WithTableName("a"), WithDatabaseName("x"), WithTableName("a_v0"),
       WithIndexOption(<<"v0">>)>>}

NextLife ==
    \/ \E o \in LifeOpts : NewAdapter("ok", o \o <<WithPool>>)
    \/ Ping
    \/ \E o \in LifeOpts : NewAdapterWithConn(Handle("conn", 0), o)
    \/ CreateTable
    \/ CreateUniqueIndex
    \/ CreateIndex
    \/ ReturnAdapter
    \/ UseAdapter
    \/ \E p \in Procs, arg \in ConcArgs : LoadFilteredPolicyCtx(p, arg)
    \/ CallStep

SpecLife == InitBoot /\ [][NextLife]_vars

\* ------------------------------------------------------------------ claims
Range(seq) == {seq[i] : i \in 1..Len(seq)}

\* the allow-lists of a filter and the values of a row, column by column
AllowLists(f) == <<f.Ptype, f.V0, f.V1, f.V2, f.V3, f.V4, f.V5>>
RowValues(row) == <<NullString(row.ptype)>> \o row.v

\* a row matches a filter iff every non-empty allow-list has the row's value
Matches(f, row) ==
    \A i \in 1..7 :
        AllowLists(f)[i] # <<>> =>
            /\ RowValues(row)[i].Valid
            /\ RowValues(row)[i].String \in Range(AllowLists(f)[i])

PolicyRows == db.rows[a.tableName]

TimesFed(c, row) == Cardinality({i \in 1..Len(c.fed) : c.fed[i].id = row.id})

IsLoad(c) == c.op = "LoadFilteredPolicyCtx"

SingleFilterLoad(c) ==
    IsLoad(c) /\ c.kind \in {"Filter", "*Filter"} /\ c.section = "filtered"

BatchLoad(c) ==
    /\ IsLoad(c) /\ c.kind \in {"BatchFilter", "*BatchFilter", "[]Filter"}
    /\ c.section = "filtered"

Returned(c) == c.pc = "done"

\* C1: a load with a single Filter never feeds the model a row that does not
\* match the filter, feeds no row twice, and when it returns nil it has fed
\* every row of the table that matches (a row matches iff each non-empty
\* allow-list holds the row's value; an all-empty filter loads every row).
C1_SingleFilterLoadsMatchingRows ==
    \A p \in Procs :
        SingleFilterLoad(call[p]) =>
            LET c == call[p]
                f == c.filters[1]
            IN  /\ \A r \in PolicyRows : ~Matches(f, r) => TimesFed(c, r) = 0
                /\ \A r \in PolicyRows : TimesFed(c, r) <= 1
                /\ Returned(c) /\ c.result = "ok" =>
                        \A r \in PolicyRows : Matches(f, r) => TimesFed(c, r) = 1

\* a single-filter load returned nil having fed some rows and left out others,
\* one of them left out for a NULL in a constrained column
C1_Witness ==
    \E p \in Procs :
        /\ SingleFilterLoad(call[p]) /\ Returned(call[p]) /\ call[p].result = "ok"
        /\ call[p].filters[1] = FilterSubObj
        /\ Len(call[p].fed) = 1
        /\ \E r \in PolicyRows : ~r.v[1].Valid

\* C2: a batch load (BatchFilter, *BatchFilter, []Filter) of n >= 0 filters
\* that returns nil has fed every row once per filter of the batch that the
\* row matches: no matching row is omitted and nothing is deduplicated.
C2_BatchFeedsEveryFilter ==
    \A p \in Procs :
        BatchLoad(call[p]) /\ Returned(call[p]) /\ call[p].result = "ok" =>
            \A r \in PolicyRows :
                TimesFed(call[p], r) =
                    Cardinality({k \in 1..Len(call[p].filters) :
                                    Matches(call[p].filters[k], r)})

\* a batch of two filters returned nil with one row fed twice and another once
C2_Witness ==
    \E p \in Procs :
        /\ BatchLoad(call[p]) /\ Returned(call[p]) /\ call[p].result = "ok"
        /\ Len(call[p].filters) = 2
        /\ \E r1, r2 \in PolicyRows :
              TimesFed(call[p], r1) = 2 /\ TimesFed(call[p], r2) = 1

\* a filtered load that has written the flag: from its Unlock to its return
PastFlagWrite(c) ==
    /\ IsLoad(c) /\ c.section = "filtered"
    /\ c.pc \in {"unlock", "loop", "rows", "done"}

Unfiltered(c) == IsLoad(c) /\ c.section \in {"nil", "all"}

\* C3: a load with a non-nil filter of a supported type has set the flag
\* before it issues its first query, and from then on, during the call and
\* after its return whatever the result, the flag is true unless the latest
\* write of the flag is the one of an unfiltered load.
C3_FlagSetBeforeQueries ==
    \A p \in Procs :
        LET c == call[p]
        IN  /\ IsLoad(c) /\ c.section = "filtered" /\ c.queries > 0 => PastFlagWrite(c)
            /\ PastFlagWrite(c) =>
                  \/ isFiltered
                  \/ lastWriter # 0 /\ Unfiltered(call[lastWriter])

\* a filtered load is reading its rows while an IsFiltered call that started
\* on a false flag has returned true
C3_Witness ==
    \E p, q \in Procs :
        /\ PastFlagWrite(call[p]) /\ call[p].pc = "rows"
        /\ lastWriter = p
        /\ call[q].op = "IsFilteredCtx" /\ call[q].pc = "done" /\ call[q].ret

NilArgument(c) == IsLoad(c) /\ (c.kind = "nil" \/ c.nilptr)

\* C4 (as claimed): a call whose filter is nil, an untyped nil or a nil
\* *Filter or *BatchFilter, raises no fault: it runs the full load.
C4_NilFilterIsFullLoad ==
    \A p \in Procs :
        NilArgument(call[p]) =>
            /\ call[p].result # "panic"
            /\ call[p].section \in {"nil", "all"}

\* the state of a call whose filter has an unsupported type
C5_RejectedState ==
    \A p \in Procs :
        LET c == call[p]
        IN  IsLoad(c) =>
              /\ c.result = "invalid filter type" <=>
                    c.kind \notin SupportedKinds \cup {"nil"}
              /\ c.kind \notin SupportedKinds \cup {"nil"} =>
                    /\ Returned(c) /\ c.queries = 0 /\ c.fed = <<>>
                    /\ c.section = "none"

\* the step that rejects a filter
C5_RejectedStep ==
    \A p \in Procs :
        call'[p].result = "invalid filter type" =>
            isFiltered' = isFiltered /\ mu' = mu /\ db' = db

\* C5: the call accepts exactly Filter, *Filter, BatchFilter, *BatchFilter and
\* []Filter (and nil); a value of another type gets "invalid filter type" with
\* no query issued and nothing fed to the model, and the step that rejects it
\* leaves the flag and the lock as they were.
C5_InvalidFilterType == []C5_RejectedState /\ [][C5_RejectedStep]_vars

\* a value of an unsupported type was rejected on an adapter whose flag is set
C5_Witness ==
    \E p \in Procs :
        /\ call[p].kind = "other" /\ call[p].result = "invalid filter type"
        /\ isFiltered

FedRow(e) == CHOOSE r \in PolicyRows : r.id = e.id

\* C6 (as claimed): the line of every row a filtered load feeds is
\* [ptype, v0, ..., vk], vk the last non-NULL column: nothing after vk, and
\* element i+1 of the line is the value of column v_i.
C6_LineKeepsColumnPositions ==
    \A p \in Procs :
        IsLoad(call[p]) /\ call[p].section = "filtered" =>
            \A n \in 1..Len(call[p].fed) :
                LET line == call[p].fed[n].line
                    row == FedRow(call[p].fed[n])
                IN  /\ Len(line) = 1 + LastSet(row)
                    /\ line[1] = row.ptype
                    /\ \A i \in 1..LastSet(row) :
                          row.v[i].Valid => line[i + 1] = row.v[i].String

\* an index of the identity key on the table: what keeps its rows distinct
HasIdentityIndex(tableName) ==
    \E n \in Indexes(db) :
        /\ db.relations[n].on = tableName
        /\ db.relations[n].unique
        /\ db.relations[n].key = IdentityKey

\* C7 (as claimed): every table an adapter was constructed for has a unique
\* index over (ptype, coalesce(v0,''), ..., coalesce(v5,'')) and so never
\* holds two rows of one identity, whatever was constructed before.
C7_UniqueIndexOnEveryTable ==
    \A cfg \in built :
        /\ HasIdentityIndex(cfg.tableName)
        /\ ~HasDuplicates(db.rows[cfg.tableName], IdentityKey)

DDLSteps == {"createTable", "createUniqueIndex", "createIndex"}

\* a construction in flight, on a live handle, whose table name and index
\* list are those of an adapter constructed before
Repeated == ctor.pc \in DDLSteps /\ Config(ctor.a) \in built /\ GetDB(ctor.a) # Nil

\* a statement of a repeated construction
C8_RepeatedStep ==
    Repeated /\ ctor' # ctor => db' = db /\ ctor'.err = "" /\ ctor'.rejected = 0

\* C8: constructing an adapter again, with the table name and options of a
\* construction that succeeded, fails at no statement and changes neither the
\* relations (tables, indexes) nor the rows of the database.
C8_BootstrapIdempotent == [][C8_RepeatedStep]_vars

\* a repeated construction has gone through its table, its unique index and a
\* custom index, on a table that holds rows
C8_Witness ==
    /\ Repeated /\ ctor.pc = "createIndex" /\ ctor.i = 2
    /\ db.rows[ctor.a.tableName] # {}

Succeeded == ctor.pc = "done" /\ ctor.err = "" /\ ctor.ret = ctor.a

\* C9 (as claimed): after a successful construction every WithIndex(ci) has
\* an index named idx_<table>_<columns joined by _> on the table, over
\* exactly the columns ci, whatever the database held before.
C9_CustomIndexesExist ==
    Succeeded =>
        \A i \in 1..Len(ctor.a.indexes) :
            LET n == indexName(ctor.a.tableName, ctor.a.indexes[i])
            IN  /\ n \in Indexes(db)
                /\ db.relations[n].on = ctor.a.tableName
                /\ db.relations[n].key = ColumnsKey(ctor.a.indexes[i])

\* C10: a DDL statement the database rejects is the last one the construction
\* sends, and the constructor then returns an error and no adapter; an adapter
\* is returned only after the table, the unique index and every custom index
\* statement have been sent and none was rejected.
C10_DDLFailureAborts ==
    /\ ctor.rejected > 0 =>
          /\ ctor.pc = "done" /\ ctor.rejected = 1
          /\ ctor.err # "" /\ ctor.ret = Nil
    /\ ctor.pc = "done" =>
          \/ ctor.err # "" /\ ctor.ret = Nil
          \/ /\ Succeeded /\ ctor.rejected = 0
             /\ ctor.executed = 2 + Len(ctor.a.indexes)

\* the unique index statement was rejected with a custom index still to create
C10_Witness ==
    /\ ctor.pc = "done" /\ ctor.rejected = 1 /\ ctor.executed = 2
    /\ Len(ctor.a.indexes) > 0 /\ ctor.ret = Nil

\* the construction works on a pool: NewAdapterWithPool, or NewAdapter with
\* WithPool among its options
UsesPool(c) ==
    \/ c.entry = "NewAdapterWithPool"
    \/ c.entry = "NewAdapter" /\ \E i \in 1..Len(c.opts) : c.opts[i] = WithPool

\* C11: the adapter a constructor returns holds exactly one handle: built on
\* a pool (NewAdapterWithPool, NewAdapter with WithPool) GetPool is non-nil
\* and GetConn nil, built on a connection (NewAdapterWithConn, NewAdapter
\* without WithPool) GetConn is non-nil and GetPool nil, and GetDB is non-nil
\* and is that handle, the one the constructor was given or opened.
C11_ExactlyOneHandle ==
    Succeeded =>
        LET r == ctor.ret
        IN  /\ GetDB(r) # Nil /\ GetDB(r) = ctor.handle
            /\ IF UsesPool(ctor)
               THEN /\ GetPool(r) # Nil /\ GetConn(r) = Nil
                    /\ GetDB(r) = GetPool(r) /\ GetPool(r).kind = "pool"
               ELSE /\ GetConn(r) # Nil /\ GetPool(r) = Nil
                    /\ GetDB(r) = GetConn(r) /\ GetConn(r).kind = "conn"

\* NewAdapter with WithPool returned an adapter on the pool it opened
C11_Witness ==
    /\ Succeeded /\ ctor.entry = "NewAdapter" /\ UsesPool(ctor)
    /\ GetPool(ctor.ret) = Handle("pool", nCtors)

\* a load between its locked section and its return: querying, reading rows
AtDatabase(c) == IsLoad(c) /\ c.pc \in {"loop", "rows"}

\* a caller inside Lock() ... Unlock(): announced, or holding the lock
InLockedSection(c) == c.pc \in {"wait", "write", "unlock"}

\* C12: a load does not hold the lock while it queries or reads rows, nor
\* after it returned; an IsFiltered call waits for the read lock only while
\* some load is inside its Lock() ... Unlock() section around the flag write,
\* never for a load that is at the database and never for another reader.
C12_LockOnlyAroundFlagWrite ==
    /\ \A p \in Procs : AtDatabase(call[p]) \/ Returned(call[p]) => mu.w # p
    /\ \A q \in Procs :
          call[q].pc = "read" =>
              \/ q \in mu.active
              \/ /\ q \in mu.blocked /\ mu.w # 0
                 /\ InLockedSection(call[mu.w])
    /\ mu.w = 0 => mu.blocked = {}

\* an IsFiltered call holds the read lock and has read true while the load
\* that set the flag is reading its rows
C12_Witness ==
    \E p, q \in Procs :
        /\ AtDatabase(call[p]) /\ call[p].pc = "rows" /\ call[p].section = "filtered"
        /\ call[q].pc = "runlock" /\ q \in mu.active /\ call[q].ret

Cancelled(c) == IsLoad(c) /\ c.section = "filtered" /\ c.ctx # "live"

\* a call whose context was done before or during one of its queries has
\* returned: with an error that wraps the context's
C13_CancelledState ==
    \A p \in Procs :
        Cancelled(call[p]) /\ Returned(call[p]) =>
            /\ call[p].result # "ok"
            /\ call[p].cause = call[p].ctx

\* a step of a call whose context is done: no row is fed, and a query that
\* is issued fails
C13_CancelledStep ==
    \A p \in Procs :
        Cancelled(call[p]) =>
            /\ call'[p].fed = call[p].fed
            /\ call'[p].queries > call[p].queries => Returned(call'[p])

\* C13 (as claimed): once the context of a filtered load is cancelled or past
\* its deadline, before or during a query of the call, the call loads no
\* further row, issues no further query, and returns an error that wraps the
\* context's error.
C13_CancellationStopsLoad == []C13_CancelledState /\ [][C13_CancelledStep]_vars

\* the rows fed so far come filter by filter, and by ascending id within one
FedInOrder(fed) ==
    \A i, j \in 1..Len(fed) :
        i < j =>
            \/ fed[i].filter < fed[j].filter
            \/ fed[i].filter = fed[j].filter /\ fed[i].id < fed[j].id

\* C15: a filtered load feeds the model in a fixed order: the filters in the
\* order given, the k-th query issued only when the rows of the filters
\* before it are through (nothing is fed for a filter other than the one
\* whose query is open), and within a filter by ascending id.
C15_DeterministicOrder ==
    \A p \in Procs :
        LET c == call[p]
        IN  IsLoad(c) /\ c.section = "filtered" =>
              /\ FedInOrder(c.fed)
              /\ \A n \in 1..Len(c.fed) : c.fed[n].filter <= c.fi
              /\ c.pc = "rows" => c.queries = c.fi
              /\ c.pc = "loop" => c.queries = c.fi - 1
              /\ c.pc = "rows" =>
                    \A n \in 1..Len(c.fed), m \in 1..Len(c.rows) :
                        c.fed[n].filter = c.fi => c.fed[n].id < c.rows[m].id

\* a batch of two filters has fed two rows for its first filter and is
\* reading the second row of its second
C15_Witness ==
    \E p \in Procs :
        LET c == call[p]
        IN  /\ BatchLoad(c) /\ c.pc = "rows" /\ c.fi = 2 /\ Len(c.rows) = 1
            /\ Len(c.fed) = 3 /\ c.fed[2].filter = 1 /\ c.fed[3].filter = 2

\* the rows of the k-th filter that the call has fed
FedFor(c, k) == {n \in 1..Len(c.fed) : c.fed[n].filter = k}

\* every filter of the call has had each of its matching rows fed
Complete(c) ==
    \A k \in 1..Len(c.filters) :
        Cardinality(FedFor(c, k)) =
            Cardinality({r \in PolicyRows : Matches(c.filters[k], r)})

\* C16: an error from the query, the row scan, the row iteration or the
\* model's loader ends the call there with a non-nil error, nothing more fed
\* or queried; and a call that returns nil has met no error and has fed every
\* matching row of every filter.
C16_ErrorAbortsLoad ==
    \A p \in Procs :
        LET c == call[p]
        IN  IsLoad(c) /\ c.section = "filtered" =>
              /\ c.failures > 0 =>
                    /\ Returned(c) /\ c.failures = 1
                    /\ c.result \notin {"ok", "none"} /\ c.cause # "none"
              /\ Returned(c) /\ c.result = "ok" => c.failures = 0 /\ Complete(c)

\* the loader rejected the second row of the first of two filters
C16_Witness ==
    \E p \in Procs :
        LET c == call[p]
        IN  /\ BatchLoad(c) /\ Returned(c) /\ c.result = "loader error"
            /\ c.failures = 1 /\ Len(c.filters) = 2 /\ c.fi = 1
            /\ Len(c.fed) = 1 /\ c.rows # <<>>

\* C17 (as claimed): when NewAdapter returns an error, the connection or pool
\* the call opened is closed: after a failed ping and after a failed
\* bootstrap alike.
C17_NoHandleLeftOpen ==
    ctor.entry = "NewAdapter" /\ ctor.pc = "done" /\ ctor.err # "" => ~ctor.opened

\* between Lock() and Unlock(): the caller holds the lock exclusively
HoldsLock(p) == call[p].pc \in {"write", "unlock"}

\* the value of the latest write of the flag, false when there was none
LatestWrite ==
    IF lastWriter = 0 THEN FALSE ELSE FlagValue(call[lastWriter].section)

\* every access of the flag is under the lock, and the flag holds the value
\* of the latest write
C18_RegisterState ==
    /\ \A p \in Procs : HoldsLock(p) => mu.w = p /\ mu.active = {}
    /\ \A p, q \in Procs : HoldsLock(p) /\ HoldsLock(q) => p = q
    /\ \A q \in Procs : call[q].pc = "runlock" => q \in mu.active /\ mu.w # q
    /\ isFiltered = LatestWrite

\* the step in which an IsFiltered call reads the flag, and the one in which
\* a load writes it
C18_RegisterStep ==
    \A p \in Procs :
        /\ call[p].pc = "read" /\ call'[p].pc = "runlock" =>
              /\ p \in mu.active /\ \A w \in Procs : ~HoldsLock(w)
              /\ call'[p].ret = LatestWrite
        /\ isFiltered' # isFiltered \/ lastWriter' # lastWriter =>
              HoldsLock(lastWriter') /\ mu.active = {}

\* C18: the flag is an atomic register: it is written only by a caller that
\* holds the lock exclusively and read only under the read lock, no write
\* overlaps a read or another write, and every IsFiltered call returns the
\* value of the latest write in lock order, false when the adapter has
\* written none since its construction.
C18_FlagIsAtomicRegister == []C18_RegisterState /\ [][C18_RegisterStep]_vars

\* an IsFiltered call has returned true, the write of a filtered load that is
\* now at its queries being the latest
C18_Witness ==
    \E p, q \in Procs :
        /\ lastWriter = p /\ call[p].section = "filtered" /\ call[p].pc = "loop"
        /\ call[q].op = "IsFilteredCtx" /\ Returned(call[q]) /\ call[q].ret

\* the argument of the last option of the kind among opts, dflt when none
LastArg(opts, kind, dflt) ==
    LET at == {i \in 1..Len(opts) : opts[i].opt = kind}
    IN  IF at = {} THEN dflt
        ELSE opts[CHOOSE i \in at : \A j \in at : j <= i].arg

\* the adapter a constructor returns has the names its options gave last
C14_ConstructedState ==
    Succeeded =>
        /\ GetTableName(ctor.ret) =
                LastArg(ctor.opts, "WithTableName", defaultTableName)
        /\ GetDatabase(ctor.ret) =
                LastArg(ctor.opts, "WithDatabaseName", defaultDatabase)

\* no step taken while the adapter is in use changes one of its fields
C14_FrameStep == a # Nil => a' = a

\* C14: GetTableName and GetDatabase of a constructed adapter are the
\* arguments of the last WithTableName / WithDatabaseName option, the defaults
\* "casbin_rule" / "casbin" without one; and once constructed, no load, no
\* IsFiltered call and no later construction changes the adapter's table
\* name, database name, index list or handles.
C14_ConfigurationFixed == []C14_ConstructedState /\ [][C14_FrameStep]_vars

\* a load has returned nil on an adapter whose table name was set twice
C14_Witness ==
    /\ a # Nil /\ GetTableName(a) = "a_v0" /\ GetDatabase(a) = "x"
    /\ \E p \in Procs :
          IsLoad(call[p]) /\ Returned(call[p]) /\ call[p].result = "ok"
          /\ call[p].section = "filtered"

====
